---- MODULE Spec2Model ----
(***************************************************************************)
(* Model of split_hindcast_WDCC.py: the per-file transformation            *)
(* (process_single_netcdf) and the parallel dispatcher                     *)
(* (process_netcdf_for_year).                                              *)
(*                                                                         *)
(* Strings are sequences of one-character strings, so that the regular     *)
(* expressions, the f-string formatting and the lexicographic sort are     *)
(* computed character by character as the code computes them.              *)
(***************************************************************************)
EXTENDS Integers, Sequences, FiniteSets, TLC

(***************************************************************************)
(* Bounds of the model.                                                    *)
(***************************************************************************)
\* multiprocessing.cpu_count() ranges over 1..MaxCpu
MaxCpu == 2
\* number of level variables of one quantity met in one dataset (SpecAggregate)
MaxLevels == 3

(***************************************************************************)
(* Characters and strings.                                                 *)
(***************************************************************************)
Range(s) == {s[k] : k \in 1..Len(s)}

DigitChars == <<"0", "1", "2", "3", "4", "5", "6", "7", "8", "9">>

IsDigit(c) == c \in Range(DigitChars)

\* str(n) of a non-negative integer, as the f-string {level} formats it
RECURSIVE FormatInt(_)
FormatInt(n) ==
    IF n < 10 THEN <<DigitChars[n + 1]>>
    ELSE FormatInt(n \div 10) \o <<DigitChars[(n % 10) + 1]>>

\* the characters that occur in the model's strings, in code-point order
CodePoints ==
    <<"-", ".", "0", "1", "2", "3", "4", "5", "6", "7", "8", "9", "_",
      "a", "b", "c", "e", "f", "g", "h", "k", "l", "m", "n", "o", "p",
      "q", "r", "s", "t", "u", "v", "w", "x", "z">>

Ord(c) == CHOOSE k \in 1..Len(CodePoints) : CodePoints[k] = c

\* Python's str.__lt__: lexicographic by code point, a proper prefix is smaller
RECURSIVE StrLess(_, _)
StrLess(a, b) ==
    IF b = <<>> THEN FALSE
    ELSE IF a = <<>> THEN TRUE
    ELSE IF a[1] # b[1] THEN Ord(a[1]) < Ord(b[1])
    ELSE StrLess(Tail(a), Tail(b))

\* sorted(<set of strings>)
RECURSIVE SortedStrings(_)
SortedStrings(S) ==
    IF S = {} THEN <<>>
    ELSE LET m == CHOOSE x \in S : \A y \in S \ {x} : StrLess(x, y)
         IN  <<m>> \o SortedStrings(S \ {m})

\* the literal lit occurs in s at position i
LitAt(s, i, lit) ==
    /\ i >= 1
    /\ i + Len(lit) - 1 <= Len(s)
    /\ \A k \in 1..Len(lit) : s[i + k - 1] = lit[k]

\* \d{n} matches in s at position i
DigitsAt(s, i, n) ==
    /\ i >= 1
    /\ i + n - 1 <= Len(s)
    /\ \A k \in 0..(n - 1) : IsDigit(s[i + k])

GRAPHCAST_ == <<"g", "r", "a", "p", "h", "c", "a", "s", "t", "_">>

(***************************************************************************)
(* The tables of process_single_netcdf.                                    *)
(***************************************************************************)
pressure_vars == <<"q", "t", "z", "u", "v", "w">>

pressure_levels ==
    <<50, 100, 150, 200, 250, 300, 400, 500, 600, 700, 850, 925, 1000>>

surface_var_names ==
    << <<"u", "1", "0", "m">>, <<"v", "1", "0", "m">>, <<"t", "2", "m">>,
       <<"m", "s", "l">>, <<"t", "p", "0", "6">> >>

(***************************************************************************)
(* The classification loop, lines 62-73.                                   *)
(***************************************************************************)
\* the bug "var_name.startswith(f'{base_var}{level}')"
NameMatchesPrefix(var_name, base_var, level) ==
    LitAt(var_name, 1, <<base_var>> \o FormatInt(level))

\* var_name == f"{base_var}{level}"
NameMatches(var_name, base_var, level) ==
    var_name = <<base_var>> \o FormatInt(level)

\* inner loop: the index of the first level that matches, 0 when none does
FirstLevel(var_name, base_var) ==
    LET hits == {j \in 1..Len(pressure_levels) :
                    NameMatches(var_name, base_var, pressure_levels[j])}
    IN  IF hits = {} THEN 0
        ELSE CHOOSE j \in hits : \A k \in hits : j <= k

\* outer loop: the index of the first base whose inner loop breaks, 0 when none
FirstBase(var_name) ==
    LET hits == {i \in 1..Len(pressure_vars) :
                    FirstLevel(var_name, pressure_vars[i]) # 0}
    IN  IF hits = {} THEN 0
        ELSE CHOOSE i \in hits : \A k \in hits : i <= k

\* what one iteration of "for var_name in ds.data_vars" decides
ClassifyVar(var_name) ==
    LET i == FirstBase(var_name) IN
    IF i # 0
    THEN [tag |-> "PressureLevel", base |-> pressure_vars[i],
          level |-> pressure_levels[FirstLevel(var_name, pressure_vars[i])]]
    ELSE IF var_name \in Range(surface_var_names)
    THEN [tag |-> "Surface"]
    ELSE [tag |-> "Unrecognized"]

\* grouped_pressure_data = {var: [] for var in pressure_vars}
EmptyGroups == [b \in Range(pressure_vars) |-> <<>>]

\* the bug of a collection that keeps every variable that is no level variable
ClassifyStepKeepAll(acc, v) ==
    LET c == ClassifyVar(v.name) IN
    IF c.tag = "PressureLevel"
    THEN [acc EXCEPT !.grouped[c.base] = Append(@, <<c.level, v>>)]
    ELSE [acc EXCEPT !.surface_ds = Append(@, v.name)]

\* one iteration of the loop on the collections (surface_ds is a dict: its keys)
ClassifyStep(acc, v) ==
    LET c == ClassifyVar(v.name) IN
    IF c.tag = "PressureLevel"
    THEN [acc EXCEPT !.grouped[c.base] = Append(@, <<c.level, v>>)]
    ELSE IF c.tag = "Surface"
    THEN [acc EXCEPT !.surface_ds = Append(@, v.name)]
    ELSE acc

\* the whole loop over the first n variables of the dataset
RECURSIVE ClassifyLoop(_, _)
ClassifyLoop(data_vars, n) ==
    IF n = 0 THEN [surface_ds |-> <<>>, grouped |-> EmptyGroups]
    ELSE ClassifyStep(ClassifyLoop(data_vars, n - 1), data_vars[n])

(***************************************************************************)
(* Aggregation of one quantity, lines 114-137.                             *)
(***************************************************************************)
\* the bug "zip(*level_data)": the encounter order is kept
UnsortedPairs(level_data) == level_data

\* sorted(level_data): tuples compare by level first; the levels of one
\* quantity are distinct in one dataset, so the arrays are never compared
RECURSIVE SortedPairs(_)
SortedPairs(level_data) ==
    IF level_data = <<>> THEN <<>>
    ELSE LET m == CHOOSE k \in 1..Len(level_data) :
                      \A j \in 1..Len(level_data) :
                          \/ level_data[k][1] < level_data[j][1]
                          \/ (level_data[k][1] = level_data[j][1] /\ k <= j)
             rest == [j \in 1..(Len(level_data) - 1) |->
                         IF j < m THEN level_data[j] ELSE level_data[j + 1]]
         IN  <<level_data[m]>> \o SortedPairs(rest)

\* xr.concat(data_arrays, dim="plevel") raises when the arrays disagree in shape
ConcatRaises(level_data) ==
    \E j, k \in 1..Len(level_data) : level_data[j][2].shape # level_data[k][2].shape

\* combined_var.to_dataset(name=var): the variable var, its plevel coordinate
\* and, per position, the input variable whose array lies there
PressureDataset(var, level_data) ==
    LET s == SortedPairs(level_data) IN
    [var    |-> var,
     plevel |-> [k \in 1..Len(s) |-> s[k][1]],
     arrays |-> [k \in 1..Len(s) |-> s[k][2].name]]

(***************************************************************************)
(* File names and the two regular expressions.                             *)
(***************************************************************************)
\* re.search(r"graphcast_(\d{4})_(\d{2})_(\d{2})", s) matches at position i
DatePatternAt(s, i) ==
    /\ LitAt(s, i, GRAPHCAST_)
    /\ DigitsAt(s, i + 10, 4)
    /\ LitAt(s, i + 14, <<"_">>)
    /\ DigitsAt(s, i + 15, 2)
    /\ LitAt(s, i + 17, <<"_">>)
    /\ DigitsAt(s, i + 18, 2)

\* the leftmost match of re.search, 0 when there is none (line 19)
DateSearch(input_file) ==
    LET hits == {i \in 1..Len(input_file) : DatePatternAt(input_file, i)}
    IN  IF hits = {} THEN 0
        ELSE CHOOSE i \in hits : \A k \in hits : i <= k

\* date_str = f"{file_year}-{month}-{day}" (lines 23-24)
DateStr(input_file) ==
    LET i == DateSearch(input_file) IN
    SubSeq(input_file, i + 10, i + 13) \o <<"-">> \o
    SubSeq(input_file, i + 15, i + 16) \o <<"-">> \o
    SubSeq(input_file, i + 18, i + 19)

\* re.match(f"graphcast_{year}_\d{2}_\d{2}\.nc", f): anchored at the start of
\* the name only; whatever follows ".nc" is accepted (line 151)
DiscoveryMatch(yr, f) ==
    LET a == 11 + Len(yr) IN
    /\ LitAt(f, 1, GRAPHCAST_)
    /\ LitAt(f, 11, yr)
    /\ LitAt(f, a, <<"_">>)
    /\ DigitsAt(f, a + 1, 2)
    /\ LitAt(f, a + 3, <<"_">>)
    /\ DigitsAt(f, a + 4, 2)
    /\ LitAt(f, a + 6, <<".", "n", "c">>)

(***************************************************************************)
(* Input directories the runs are started on.                              *)
(***************************************************************************)
Var(name, shape) == [name |-> name, shape |-> shape]

Corrupt == [readable |-> FALSE, data_vars |-> <<>>]

Dataset(vars) == [readable |-> TRUE, data_vars |-> vars]

\* t850 is met before t500; foo is no known variable
ExampleData ==
    Dataset(<< Var(<<"t", "8", "5", "0">>, 1), Var(<<"u", "1", "0", "m">>, 1),
               Var(<<"f", "o", "o">>, 1), Var(<<"t", "5", "0", "0">>, 1) >>)

\* the two q levels disagree in shape
MismatchData ==
    Dataset(<< Var(<<"q", "5", "0", "0">>, 1), Var(<<"q", "8", "5", "0">>, 2),
               Var(<<"m", "s", "l">>, 1), Var(<<"t", "5", "0", "0">>, 1) >>)

\* two quantities with one level each, and a surface variable
WindData ==
    Dataset(<< Var(<<"v", "8", "5", "0">>, 1), Var(<<"v", "1", "0", "m">>, 1),
               Var(<<"u", "8", "5", "0">>, 1) >>)

UnknownData == Dataset(<< Var(<<"f", "o", "o">>, 1) >>)

Y2024 == <<"2", "0", "2", "4">>

Y24 == <<"2", "4">>

NcName(yr, mm, dd) ==
    GRAPHCAST_ \o yr \o <<"_">> \o mm \o <<"_">> \o dd \o <<".", "n", "c">>

Jan(dd) == NcName(Y2024, <<"0", "1">>, dd)

Fixtures ==
    { \* no file of the year
      [year |-> Y2024,
       dir  |-> (NcName(<<"2", "0", "2", "3">>, <<"0", "1">>, <<"0", "1">>)
                     :> ExampleData)
             @@ (<<"n", "o", "t", "e", "s", ".", "t", "x", "t">> :> Corrupt)],
      \* the one-file example
      [year |-> Y2024, dir |-> (Jan(<<"0", "1">>) :> ExampleData)],
      \* a backup copy beside the file, and names the discovery rejects
      [year |-> Y2024,
       dir  |-> (Jan(<<"0", "1">>) :> ExampleData)
             @@ ((Jan(<<"0", "1">>) \o <<".", "b", "a", "k">>) :> ExampleData)
             @@ ((<<"x">> \o Jan(<<"0", "3">>)) :> ExampleData)
             @@ (NcName(Y2024, <<"1">>, <<"0", "1">>) :> ExampleData)],
      \* a two-digit year
      [year |-> Y24,
       dir  |-> (NcName(Y24, <<"0", "1">>, <<"0", "1">>) :> ExampleData)],
      \* five days, some of them failing
      [year |-> Y2024,
       dir  |-> (Jan(<<"0", "1">>) :> MismatchData)
             @@ (Jan(<<"0", "2">>) :> ExampleData)
             @@ (Jan(<<"0", "3">>) :> Corrupt)
             @@ (Jan(<<"0", "4">>) :> UnknownData)
             @@ (Jan(<<"0", "5">>) :> WindData)] }

(***************************************************************************)
(* State.                                                                  *)
(***************************************************************************)
VARIABLES
    year,           \* args.year
    input_dir,      \* the input directory: file name -> content
    cpu_count,      \* multiprocessing.cpu_count()
    mainpc,         \* position of process_netcdf_for_year
    outdir_exists,  \* the directory {cwd}/{year} exists
    outdir_made,    \* os.makedirs created it in this run
    files,          \* the sorted list of discovered names
    taskq,          \* the pool's task queue: chunks of files
    tasks_left,     \* chunks whose result has not arrived
    batch_error,    \* a chunk's result was an exception (starmap re-raises it)
    proc,           \* the worker processes
    netcdf_lock,    \* each worker process's own copy of the module-level Lock
    nc_files,       \* the to_netcdf calls that completed
    skipped_files,  \* the lines of skipped_files.txt
    outcome,        \* how the call for each discovered file ended
    failed,         \* outputs whose own concat or write raised
    probe           \* input and result of the pure-function specifications

vars == <<year, input_dir, cpu_count, mainpc, outdir_exists, outdir_made, files,
          taskq, tasks_left, batch_error, proc, netcdf_lock, nc_files,
          skipped_files, outcome, failed, probe>>

runvars == <<year, input_dir, cpu_count, mainpc, outdir_exists, outdir_made,
             files, taskq, tasks_left, batch_error, proc, netcdf_lock,
             nc_files, skipped_files, outcome, failed>>

\* Pool(processes=min(4, ...))
PoolMax == 4

Min(a, b) == IF a < b THEN a ELSE b

NoProbe == [kind |-> "none"]

InitRun ==
    /\ \E fx \in Fixtures : year = fx.year /\ input_dir = fx.dir
    /\ cpu_count \in 1..MaxCpu
    /\ mainpc = "makedirs"
    /\ outdir_exists = FALSE
    /\ outdir_made = FALSE
    /\ files = <<>>
    /\ taskq = <<>>
    /\ tasks_left = 0
    /\ batch_error = FALSE
    /\ proc = <<>>
    /\ netcdf_lock = <<>>
    /\ nc_files = {}
    /\ skipped_files = <<>>
    /\ outcome = <<>>
    /\ failed = {}

Init == InitRun /\ probe = NoProbe

(***************************************************************************)
(* process_netcdf_for_year, lines 147-157.                                 *)
(***************************************************************************)
\* os.makedirs(output_base_dir, exist_ok=True), lines 148-149
MakeDirs ==
    /\ mainpc = "makedirs"
    /\ outdir_exists' = TRUE
    /\ outdir_made' = ~outdir_exists
    /\ mainpc' = "discover"
    /\ UNCHANGED <<year, input_dir, cpu_count, files, taskq, tasks_left,
                   batch_error, proc, netcdf_lock, nc_files, skipped_files,
                   outcome, failed, probe>>

\* files = sorted([f for f in os.listdir(input_dir) if re.match(...)]), and the
\* "if not files" return, lines 151-154
Discover ==
    /\ mainpc = "discover"
    /\ LET found == SortedStrings({f \in DOMAIN input_dir : DiscoveryMatch(year, f)})
       IN  /\ files' = found
           /\ outcome' = [f \in Range(found) |-> "pending"]
           /\ mainpc' = IF found = <<>> THEN "done" ELSE "pool"
    /\ UNCHANGED <<year, input_dir, cpu_count, outdir_exists, outdir_made, taskq,
                   tasks_left, batch_error, proc, netcdf_lock, nc_files,
                   skipped_files, failed, probe>>

\* Pool._map_async: chunksize, extra = divmod(len(iterable), len(pool) * 4)
ChunkSize(n, nprocs) ==
    IF n % (nprocs * 4) # 0 THEN (n \div (nprocs * 4)) + 1 ELSE n \div (nprocs * 4)

\* Pool._get_tasks: the list cut into chunks of size
RECURSIVE GetTasks(_, _)
GetTasks(fs, size) ==
    IF fs = <<>> THEN <<>>
    ELSE IF Len(fs) <= size THEN <<fs>>
    ELSE <<SubSeq(fs, 1, size)>> \o GetTasks(SubSeq(fs, size + 1, Len(fs)), size)

IdleWorker ==
    [pc |-> "idle", chunk |-> <<>>, file |-> <<>>, date_str |-> <<>>,
     data_vars |-> <<>>, i |-> 0, surface_ds |-> <<>>, grouped |-> EmptyGroups,
     base_i |-> 0, combined |-> <<>>, aggregated |-> {}, wrote |-> {}]

\* multiprocessing.Pool(processes=min(4, cpu_count())) and pool.starmap: the
\* workers are processes, each with its own copy of the module's globals
\* (netcdf_lock among them), lines 156-157
StartPool ==
    /\ mainpc = "pool"
    /\ LET nprocs == Min(PoolMax, cpu_count)
           tasks  == GetTasks(files, ChunkSize(Len(files), nprocs))
       IN  /\ proc' = [p \in 1..nprocs |-> IdleWorker]
           /\ netcdf_lock' = [p \in 1..nprocs |-> FALSE]
           /\ taskq' = tasks
           /\ tasks_left' = Len(tasks)
    /\ mainpc' = "join"
    /\ UNCHANGED <<year, input_dir, cpu_count, outdir_exists, outdir_made, files,
                   batch_error, nc_files, skipped_files, outcome, failed, probe>>

\* starmap returns (or re-raises a chunk's exception) once every chunk's
\* result has arrived, line 157
Join ==
    /\ mainpc = "join"
    /\ tasks_left = 0
    /\ mainpc' = "done"
    /\ UNCHANGED <<year, input_dir, cpu_count, outdir_exists, outdir_made, files,
                   taskq, tasks_left, batch_error, proc, netcdf_lock, nc_files,
                   skipped_files, outcome, failed, probe>>

(***************************************************************************)
(* A pool worker running process_single_netcdf over its chunk.             *)
(***************************************************************************)
Workers == DOMAIN proc

fixed == <<year, input_dir, cpu_count, mainpc, outdir_exists, outdir_made, files,
           probe>>

\* the worker fetches a chunk of the task queue
TakeTask(p) ==
    /\ proc[p].pc = "idle"
    /\ taskq # <<>>
    /\ proc' = [proc EXCEPT ![p].pc = "next", ![p].chunk = Head(taskq)]
    /\ taskq' = Tail(taskq)
    /\ UNCHANGED <<fixed, tasks_left, batch_error, netcdf_lock, nc_files,
                   skipped_files, outcome, failed>>

\* the chunk is exhausted: its result is put on the result queue
FinishTask(p) ==
    /\ proc[p].pc = "next"
    /\ proc[p].chunk = <<>>
    /\ proc' = [proc EXCEPT ![p] = IdleWorker]
    /\ tasks_left' = tasks_left - 1
    /\ UNCHANGED <<fixed, taskq, batch_error, netcdf_lock, nc_files,
                   skipped_files, outcome, failed>>

\* the call for a file returned: the worker goes on with its chunk
Returned(p, how) ==
    /\ proc' = [proc EXCEPT ![p] = [IdleWorker EXCEPT !.pc = "next",
                                                     !.chunk = proc[p].chunk]]
    /\ outcome' = [outcome EXCEPT ![proc[p].file] = how]

\* an exception left process_single_netcdf: nothing in the file catches it, so
\* it leaves the worker's loop over the chunk too (the rest of the chunk is
\* never called), the chunk's result is the exception, and a "with
\* netcdf_lock" block on the way releases the lock
Raised(p) ==
    /\ proc' = [proc EXCEPT ![p] = IdleWorker]
    /\ outcome' = [outcome EXCEPT ![proc[p].file] = "raised"]
    /\ netcdf_lock' = [netcdf_lock EXCEPT ![p] = FALSE]
    /\ tasks_left' = tasks_left - 1
    /\ batch_error' = TRUE

\* the call for the next file of the chunk, up to the try, lines 18-25
StartFile(p) ==
    /\ proc[p].pc = "next"
    /\ proc[p].chunk # <<>>
    /\ LET f == Head(proc[p].chunk) IN
       IF DateSearch(f) = 0
       THEN /\ proc' = [proc EXCEPT ![p].chunk = Tail(@)]
            /\ outcome' = [outcome EXCEPT ![f] = "unmatched"]
       ELSE /\ proc' = [proc EXCEPT ![p].chunk = Tail(@), ![p].file = f,
                                    ![p].date_str = DateStr(f),
                                    ![p].pc = "open_lock"]
            /\ outcome' = [outcome EXCEPT ![f] = "started"]
    /\ UNCHANGED <<fixed, taskq, tasks_left, batch_error, netcdf_lock, nc_files,
                   skipped_files, failed>>

\* "with netcdf_lock:" is entered, lines 28, 108, 141
AcquireLock(p) ==
    /\ proc[p].pc \in {"open_lock", "surface_lock", "pressure_lock"}
    /\ ~netcdf_lock[p]
    /\ netcdf_lock' = [netcdf_lock EXCEPT ![p] = TRUE]
    /\ proc' = [proc EXCEPT ![p].pc =
                   CASE proc[p].pc = "open_lock" -> "open"
                     [] proc[p].pc = "surface_lock" -> "surface_write"
                     [] proc[p].pc = "pressure_lock" -> "pressure_write"]
    /\ UNCHANGED <<fixed, taskq, tasks_left, batch_error, nc_files,
                   skipped_files, outcome, failed>>

\* xr.open_dataset returns or raises, and the with block is left, lines 29-30
OpenDataset(p) ==
    /\ proc[p].pc = "open"
    /\ netcdf_lock' = [netcdf_lock EXCEPT ![p] = FALSE]
    /\ LET content == input_dir[proc[p].file] IN
       IF content.readable
       THEN proc' = [proc EXCEPT ![p].pc = "classify",
                                 ![p].data_vars = content.data_vars,
                                 ![p].i = 0]
       ELSE proc' = [proc EXCEPT ![p].pc = "log_skip"]
    /\ UNCHANGED <<fixed, taskq, tasks_left, batch_error, nc_files,
                   skipped_files, outcome, failed>>

\* the bug of returning from the handler without writing the log line
LogSkipSilent(p) ==
    /\ proc[p].pc = "log_skip"
    /\ Returned(p, "skipped")
    /\ UNCHANGED <<fixed, taskq, tasks_left, batch_error, netcdf_lock, nc_files,
                   skipped_files, failed>>

\* the except branch: one line appended to skipped_files.txt, return, lines 30-34
LogSkip(p) ==
    /\ proc[p].pc = "log_skip"
    /\ skipped_files' = Append(skipped_files, [file |-> proc[p].file])
    /\ Returned(p, "skipped")
    /\ UNCHANGED <<fixed, taskq, tasks_left, batch_error, netcdf_lock, nc_files,
                   failed>>

\* one iteration of "for var_name in ds.data_vars", lines 56-73
Classify(p) ==
    /\ proc[p].pc = "classify"
    /\ proc[p].i < Len(proc[p].data_vars)
    /\ LET acc == ClassifyStep([surface_ds |-> proc[p].surface_ds,
                                grouped |-> proc[p].grouped],
                               proc[p].data_vars[proc[p].i + 1])
       IN  proc' = [proc EXCEPT ![p].i = @ + 1,
                                ![p].surface_ds = acc.surface_ds,
                                ![p].grouped = acc.grouped]
    /\ UNCHANGED <<fixed, taskq, tasks_left, batch_error, netcdf_lock, nc_files,
                   skipped_files, outcome, failed>>

\* the bug of the "if surface_ds:" block indented into the for loop
BuildSurfaceInLoop(p) ==
    /\ proc[p].pc = "classify"
    /\ proc[p].i >= 1
    /\ proc' = [proc EXCEPT ![p].pc = IF proc[p].surface_ds # <<>>
                                      THEN "surface_lock" ELSE "pressure_loop",
                            ![p].base_i = 1]
    /\ UNCHANGED <<fixed, taskq, tasks_left, batch_error, netcdf_lock, nc_files,
                   skipped_files, outcome, failed>>

\* the loop is over; global_attrs, encoding and "if surface_ds:", lines 75-107
BuildSurface(p) ==
    /\ proc[p].pc = "classify"
    /\ proc[p].i = Len(proc[p].data_vars)
    /\ proc' = [proc EXCEPT ![p].pc = IF proc[p].surface_ds # <<>>
                                      THEN "surface_lock" ELSE "pressure_loop",
                            ![p].base_i = 1]
    /\ UNCHANGED <<fixed, taskq, tasks_left, batch_error, netcdf_lock, nc_files,
                   skipped_files, outcome, failed>>

SURFACE_VARIABLES_ ==
    <<"s", "u", "r", "f", "a", "c", "e", "_",
      "v", "a", "r", "i", "a", "b", "l", "e", "s", "_">>

_PRESSURE_LEVELS_ ==
    <<"_", "p", "r", "e", "s", "s", "u", "r", "e", "_",
      "l", "e", "v", "e", "l", "s", "_">>

\* os.path.join(output_base_dir, f"surface_variables_{date_str}.nc"), line 105
SurfacePath(yr, date_str) ==
    [dir |-> yr, name |-> SURFACE_VARIABLES_ \o date_str \o <<".", "n", "c">>]

\* os.path.join(output_base_dir, f"{var}_pressure_levels_{date_str}.nc"), line 140
PressurePath(yr, var, date_str) ==
    [dir |-> yr,
     name |-> <<var>> \o _PRESSURE_LEVELS_ \o date_str \o <<".", "n", "c">>]

\* surface_dataset.to_netcdf(...) under the lock: it returns or raises,
\* lines 108-110
WriteSurface(p) ==
    /\ proc[p].pc = "surface_write"
    /\ \E ok \in BOOLEAN :
          IF ok
          THEN /\ nc_files' = nc_files \cup
                      {[path |-> SurfacePath(year, proc[p].date_str),
                        out  |-> "surface",
                        src  |-> proc[p].file,
                        data |-> [vars |-> proc[p].surface_ds]]}
               /\ netcdf_lock' = [netcdf_lock EXCEPT ![p] = FALSE]
               /\ proc' = [proc EXCEPT ![p].pc = "pressure_loop",
                                       ![p].wrote = @ \cup {"surface"}]
               /\ UNCHANGED <<tasks_left, batch_error, outcome, failed>>
          ELSE /\ failed' = failed \cup {[src |-> proc[p].file, out |-> "surface"]}
               /\ Raised(p)
               /\ UNCHANGED nc_files
    /\ UNCHANGED <<fixed, taskq, skipped_files>>

\* the index of the next quantity at or after base_i whose level_data is not
\* empty ("if level_data:", line 113), Len(pressure_vars) + 1 when none is left
NextNonEmpty(grouped, base_i) ==
    LET left == {k \in base_i..Len(pressure_vars) : grouped[pressure_vars[k]] # <<>>}
    IN  IF left = {} THEN Len(pressure_vars) + 1
        ELSE CHOOSE k \in left : \A j \in left : k <= j

\* "for var, level_data in grouped_pressure_data.items()" up to the next
\* write: the iterations over empty quantities, then sort, concat and
\* to_dataset of the next non-empty one (lines 112-140), or the end of the
\* loop and ds.close() (line 145)
PressureLoop(p) ==
    /\ proc[p].pc = "pressure_loop"
    /\ LET k == NextNonEmpty(proc[p].grouped, proc[p].base_i) IN
       IF k > Len(pressure_vars)
       THEN /\ Returned(p, "done")
            /\ UNCHANGED <<tasks_left, batch_error, netcdf_lock, failed>>
       ELSE LET var == pressure_vars[k]
                level_data == proc[p].grouped[var]
            IN  IF ConcatRaises(level_data)
                THEN /\ failed' = failed \cup {[src |-> proc[p].file, out |-> var]}
                     /\ Raised(p)
                ELSE /\ proc' = [proc EXCEPT
                                    ![p].base_i = k,
                                    ![p].combined = PressureDataset(var, level_data),
                                    ![p].aggregated = @ \cup {var},
                                    ![p].pc = "pressure_lock"]
                     /\ UNCHANGED <<tasks_left, batch_error, netcdf_lock,
                                    outcome, failed>>
    /\ UNCHANGED <<fixed, taskq, nc_files, skipped_files>>

\* pressure_dataset.to_netcdf(...) under the lock: it returns or raises,
\* lines 141-143
WritePressure(p) ==
    /\ proc[p].pc = "pressure_write"
    /\ LET var == pressure_vars[proc[p].base_i] IN
       \E ok \in BOOLEAN :
          IF ok
          THEN /\ nc_files' = nc_files \cup
                      {[path |-> PressurePath(year, var, proc[p].date_str),
                        out  |-> var,
                        src  |-> proc[p].file,
                        data |-> proc[p].combined]}
               /\ netcdf_lock' = [netcdf_lock EXCEPT ![p] = FALSE]
               /\ proc' = [proc EXCEPT ![p].pc = "pressure_loop",
                                       ![p].base_i = @ + 1,
                                       ![p].wrote = @ \cup {var}]
               /\ UNCHANGED <<tasks_left, batch_error, outcome, failed>>
          ELSE /\ failed' = failed \cup {[src |-> proc[p].file, out |-> var]}
               /\ Raised(p)
               /\ UNCHANGED nc_files
    /\ UNCHANGED <<fixed, taskq, skipped_files>>

Next ==
    \/ MakeDirs
    \/ Discover
    \/ StartPool
    \/ Join
    \/ \E p \in Workers : TakeTask(p)
    \/ \E p \in Workers : StartFile(p)
    \/ \E p \in Workers : AcquireLock(p)
    \/ \E p \in Workers : OpenDataset(p)
    \/ \E p \in Workers : LogSkip(p)
    \/ \E p \in Workers : Classify(p)
    \/ \E p \in Workers : BuildSurface(p)
    \/ \E p \in Workers : WriteSurface(p)
    \/ \E p \in Workers : PressureLoop(p)
    \/ \E p \in Workers : WritePressure(p)
    \/ \E p \in Workers : FinishTask(p)

Spec == Init /\ [][Next]_vars

(***************************************************************************)
(* The classification of one name, and the aggregation of one quantity,    *)
(* as specifications of their own.                                         *)
(***************************************************************************)
\* no run of the dispatcher
NoRun ==
    /\ year = <<>>
    /\ input_dir = <<>>
    /\ cpu_count = 1
    /\ mainpc = "off"
    /\ outdir_exists = FALSE
    /\ outdir_made = FALSE
    /\ files = <<>>
    /\ taskq = <<>>
    /\ tasks_left = 0
    /\ batch_error = FALSE
    /\ proc = <<>>
    /\ netcdf_lock = <<>>
    /\ nc_files = {}
    /\ skipped_files = <<>>
    /\ outcome = <<>>
    /\ failed = {}

LevelNames ==
    {<<pressure_vars[i]>> \o FormatInt(pressure_levels[j]) :
        i \in 1..Len(pressure_vars), j \in 1..Len(pressure_levels)}

\* names that are neither: near misses of both tables
OtherNames ==
    { <<>>, <<"f", "o", "o">>, <<"t">>, <<"q">>, <<"5", "0", "0">>,
      <<"t", "0", "5", "0", "0">>, <<"T", "5", "0", "0">>,
      <<"t", "5", "0", "0", "0">>, <<"t", "5", "0", "m">>, <<"t", "5">>,
      <<"t", "5", "0", "1">>, <<"t", "8", "0", "0">>, <<"u", "1", "0">>,
      <<"u", "1", "0", "0", "m">>, <<"v", "1", "0">>, <<"x", "5", "0", "0">>,
      <<"t", "2">>, <<"t", "2", "m", "m">>, <<"m", "s", "l", "5", "0", "0">>,
      <<"M", "S", "L">>, <<"t", "p", "6">>, <<"t", "p", "0", "6", "0">>,
      <<"t", "t", "5", "0", "0">>, <<"w", "1", "0", "0", "0", "0">>,
      <<"q", "_", "5", "0">>, <<"z", "9", "2", "5", "h">>, <<"u", "1", "0", "m", "1">>,
      <<"s", "p">>, <<"t", "c", "w", "v">>, <<"l", "a", "t">> }

InitClassify ==
    /\ NoRun
    /\ \E n \in LevelNames \cup Range(surface_var_names) \cup OtherNames :
          probe = [kind |-> "classify", name |-> n, done |-> FALSE,
                   result |-> [tag |-> "none"]]

\* the loop body on the name
ProbeClassify ==
    /\ probe.kind = "classify"
    /\ ~probe.done
    /\ probe' = [probe EXCEPT !.done = TRUE, !.result = ClassifyVar(probe.name)]
    /\ UNCHANGED runvars

NextClassify == ProbeClassify

SpecClassify == InitClassify /\ [][NextClassify]_vars

\* the sequences of 1..MaxLevels distinct levels: the orders in which the
\* level variables of one quantity can be met in a dataset
LevelOrders ==
    UNION {{s \in [1..n -> Range(pressure_levels)] :
               \A j, k \in 1..n : j # k => s[j] # s[k]} : n \in 1..MaxLevels}

InitAggregate ==
    /\ NoRun
    /\ \E b \in Range(pressure_vars), met \in LevelOrders :
          probe = [kind |-> "aggregate", base |-> b, met |-> met,
                   done |-> FALSE, out |-> <<>>]

\* the dataset with the variables {base}{level} in the order met, through the
\* classification loop and the aggregation of the quantity
ProbeAggregate ==
    /\ probe.kind = "aggregate"
    /\ ~probe.done
    /\ LET data_vars == [k \in 1..Len(probe.met) |->
                            Var(<<probe.base>> \o FormatInt(probe.met[k]), 1)]
           acc == ClassifyLoop(data_vars, Len(data_vars))
       IN  probe' = [probe EXCEPT !.done = TRUE,
                        !.out = PressureDataset(probe.base, acc.grouped[probe.base])]
    /\ UNCHANGED runvars

NextAggregate == ProbeAggregate

SpecAggregate == InitAggregate /\ [][NextAggregate]_vars

(***************************************************************************)
(* The properties.                                                         *)
(***************************************************************************)
\* the tables as the specification states them
SpecBases == {"q", "t", "z", "u", "v", "w"}

SpecLevels == {50, 100, 150, 200, 250, 300, 400, 500, 600, 700, 850, 925, 1000}

SpecSurface ==
    { <<"u", "1", "0", "m">>, <<"v", "1", "0", "m">>, <<"t", "2", "m">>,
      <<"m", "s", "l">>, <<"t", "p", "0", "6">> }

\* the worker is inside xr.open_dataset or to_netcdf
InNetcdfCall(p) == proc[p].pc \in {"open", "surface_write", "pressure_write"}

\* the to_netcdf calls that completed for input file f
OutputsOf(f) == {r \in nc_files : r.src = f}

\* the call for f has ended
Ended(f) == outcome[f] \in {"unmatched", "skipped", "done", "raised"}

\* C1: at any moment at most one worker of the pool is inside an open or a
\* write call.
C1_OpenAndWriteSerialized ==
    \A p, q \in Workers : p # q => ~(InNetcdfCall(p) /\ InNetcdfCall(q))

\* C2: when the batch has ended, every discovered file was processed to its
\* own terminal outcome, whatever failed in other files.
C2_FailureNeverAbortsAnotherFile ==
    mainpc = "done" => \A k \in 1..Len(files) : Ended(files[k])

\* C3: a file whose open fails gets no output file, exactly one line of the
\* failure log once its call has ended, and its call returns (it does not
\* raise).
C3_OpenFailureSkipsAndLogs ==
    \A f \in DOMAIN outcome :
        ~input_dir[f].readable =>
            /\ OutputsOf(f) = {}
            /\ outcome[f] # "raised"
            /\ Ended(f) =>
                  /\ outcome[f] = "skipped"
                  /\ Cardinality({k \in 1..Len(skipped_files) :
                                     skipped_files[k].file = f}) = 1

\* C3 witness: a whole batch has ended and a file of it failed to open
C3_Witness ==
    /\ mainpc = "done"
    /\ \E f \in DOMAIN outcome : ~input_dir[f].readable /\ outcome[f] = "skipped"
    /\ \E g \in DOMAIN outcome : outcome[g] = "done" /\ OutputsOf(g) # {}

\* the outputs the variables of f call for
ExpectedOutputs(f) ==
    LET present == {input_dir[f].data_vars[k].name :
                       k \in 1..Len(input_dir[f].data_vars)}
    IN  {o \in {"surface"} : present \cap SpecSurface # {}}
        \cup {b \in SpecBases :
                 \E l \in SpecLevels : (<<b>> \o FormatInt(l)) \in present}

\* C4: when the only failure in a file is that of one pressure quantity (its
\* concat or its write), the surface output and the output of every other
\* non-empty quantity of the file are written.
C4_QuantityFailureContained ==
    \A f \in DOMAIN outcome :
        \A b \in SpecBases :
            (Ended(f) /\ {x \in failed : x.src = f} = {[src |-> f, out |-> b]}) =>
                \A o \in ExpectedOutputs(f) \ {b} :
                    \E r \in OutputsOf(f) : r.out = o

\* C5: a run that found no file of the year has not created the year's
\* output directory.
C5_NoDirectoryWithoutFiles ==
    (mainpc = "done" /\ files = <<>>) => ~outdir_made

\* C6: no two discovered files have the same date string, and no output path
\* is written from two input files.
C6_OneInputFilePerDate ==
    /\ \A j, k \in 1..Len(files) :
          (j # k /\ DateSearch(files[j]) # 0 /\ DateSearch(files[k]) # 0)
              => DateStr(files[j]) # DateStr(files[k])
    /\ \A r1, r2 \in nc_files : r1.path = r2.path => r1.src = r2.src

\* C7: the loop classifies a name as PressureLevel(base, level) exactly when
\* it is base followed by level for a base and a level of the tables, with
\* that one pair recorded; as Surface exactly when it is a surface name; as
\* Unrecognized otherwise; never as both.
C7_ClassifierExact ==
    (probe.kind = "classify" /\ probe.done) =>
        LET n == probe.name
            pairs == {bl \in SpecBases \X SpecLevels :
                         n = <<bl[1]>> \o FormatInt(bl[2])}
        IN  /\ Cardinality(pairs) <= 1
            /\ ~(pairs # {} /\ n \in SpecSurface)
            /\ (probe.result.tag = "PressureLevel") <=> (pairs # {})
            /\ (probe.result.tag = "Surface") <=> (n \in SpecSurface)
            /\ (probe.result.tag = "Unrecognized")
                   <=> (pairs = {} /\ n \notin SpecSurface)
            /\ \A bl \in pairs :
                  probe.result = [tag |-> "PressureLevel", base |-> bl[1],
                                  level |-> bl[2]]
            /\ (n = <<"t", "5", "0", "0">>) =>
                  probe.result = [tag |-> "PressureLevel", base |-> "t",
                                  level |-> 500]
            /\ (n = <<"w", "1", "0", "0", "0">>) =>
                  probe.result = [tag |-> "PressureLevel", base |-> "w",
                                  level |-> 1000]

\* C7 witness: t500 was classified, as the level variable it is
C7_Witness ==
    /\ probe.kind = "classify"
    /\ probe.done
    /\ probe.name = <<"t", "5", "0", "0">>
    /\ probe.result.tag = "PressureLevel"

\* C8: for a file that opened and had no failure, the surface output exists
\* iff a surface variable is present and holds exactly the present surface
\* variables; the output of a quantity exists iff one of its level variables
\* is present and holds the one variable {base} over exactly the levels
\* present; nothing else is written, so an unrecognized variable is in no
\* output.
C8_OutputsFollowVariables ==
    \A f \in DOMAIN outcome :
        outcome[f] = "done" =>
            LET present == {input_dir[f].data_vars[k].name :
                               k \in 1..Len(input_dir[f].data_vars)}
                LevelsOf(b) == {l \in SpecLevels :
                                   (<<b>> \o FormatInt(l)) \in present}
            IN  /\ (\E r \in OutputsOf(f) : r.out = "surface")
                       <=> (present \cap SpecSurface # {})
                /\ \A b \in SpecBases :
                      (\E r \in OutputsOf(f) : r.out = b) <=> (LevelsOf(b) # {})
                /\ \A r \in OutputsOf(f) :
                      /\ r.out \in {"surface"} \cup SpecBases
                      /\ r.out = "surface" =>
                            /\ Range(r.data.vars) = present \cap SpecSurface
                            /\ Len(r.data.vars) = Cardinality(present \cap SpecSurface)
                      /\ r.out \in SpecBases =>
                            /\ r.data.var = r.out
                            /\ Range(r.data.plevel) = LevelsOf(r.out)
                            /\ Len(r.data.plevel) = Cardinality(LevelsOf(r.out))
                            /\ \A k \in 1..Len(r.data.arrays) :
                                  r.data.arrays[k] =
                                      <<r.out>> \o FormatInt(r.data.plevel[k])

\* C8 witness: graphcast_2024_01_01.nc with t850, u10m, foo, t500 has ended
\* with surface_variables_2024-01-01.nc holding u10m alone and
\* t_pressure_levels_2024-01-01.nc holding t over 500 and 850
C8_Witness ==
    LET f == Jan(<<"0", "1">>) IN
    /\ f \in DOMAIN outcome
    /\ input_dir[f] = ExampleData
    /\ outcome[f] = "done"
    /\ \E r \in OutputsOf(f) :
          /\ r.path.name = <<"s", "u", "r", "f", "a", "c", "e", "_", "v", "a", "r",
                             "i", "a", "b", "l", "e", "s", "_", "2", "0", "2", "4",
                             "-", "0", "1", "-", "0", "1", ".", "n", "c">>
          /\ r.data.vars = << <<"u", "1", "0", "m">> >>
    /\ \E r \in OutputsOf(f) :
          /\ r.path.name = <<"t", "_", "p", "r", "e", "s", "s", "u", "r", "e", "_",
                             "l", "e", "v", "e", "l", "s", "_", "2", "0", "2", "4",
                             "-", "0", "1", "-", "0", "1", ".", "n", "c">>
          /\ r.data.plevel = <<500, 850>>
    /\ Cardinality(OutputsOf(f)) = 2

\* C9: whatever the order in which the level variables of a quantity are met,
\* the plevel coordinate of its output is strictly ascending, is as a set the
\* levels met, and each level's array lies at the position of its level.
C9_LevelsAscending ==
    (probe.kind = "aggregate" /\ probe.done) =>
        LET out == probe.out IN
        /\ out.var = probe.base
        /\ Len(out.plevel) = Len(probe.met)
        /\ Range(out.plevel) = Range(probe.met)
        /\ \A j, k \in 1..Len(out.plevel) : j < k => out.plevel[j] < out.plevel[k]
        /\ Len(out.arrays) = Len(out.plevel)
        /\ \A k \in 1..Len(out.plevel) :
              out.arrays[k] = <<probe.base>> \o FormatInt(out.plevel[k])

\* C9 witness: levels met as 500, 100, 850 gave the coordinate 100, 500, 850
C9_Witness ==
    /\ probe.kind = "aggregate"
    /\ probe.done
    /\ probe.met = <<500, 100, 850>>
    /\ probe.out.plevel = <<100, 500, 850>>

\* the classification loop of the worker has run over every variable
ClassificationComplete(p) == proc[p].i = Len(proc[p].data_vars)

\* the quantities of the worker's file that have level data
NonEmpty(p) == {b \in SpecBases : proc[p].grouped[b] # <<>>}

\* C10 as claimed: classification completes before any aggregation, and the
\* aggregation of every non-empty quantity completes before any output is
\* written.
C10_AggregationBeforeAnyWrite ==
    \A p \in Workers :
        /\ proc[p].aggregated # {} => ClassificationComplete(p)
        /\ proc[p].wrote # {} => NonEmpty(p) \subseteq proc[p].aggregated

\* the position of a quantity in the order the loop takes them
BaseIndex(b) == CHOOSE k \in 1..Len(pressure_vars) : pressure_vars[k] = b

\* C10 as amended: classification of all variables completes before any
\* aggregation and any write; the surface output is written before any
\* quantity is aggregated; the quantities are taken in the order q, t, z, u,
\* v, w, each aggregated before its own write and only after the outputs of
\* all earlier non-empty quantities were written.
C10_PhasesAsCoded ==
    \A p \in Workers :
        /\ (proc[p].aggregated # {} \/ proc[p].wrote # {}
              \/ proc[p].pc \in {"surface_lock", "surface_write", "pressure_loop",
                                  "pressure_lock", "pressure_write"})
               => ClassificationComplete(p)
        /\ (proc[p].aggregated # {} /\ proc[p].surface_ds # <<>>)
               => "surface" \in proc[p].wrote
        /\ (proc[p].wrote \ {"surface"}) \subseteq proc[p].aggregated
        /\ \A b \in proc[p].aggregated :
              \A c \in NonEmpty(p) :
                  BaseIndex(c) < BaseIndex(b) => c \in proc[p].wrote

\* C10 witness: a worker has written the surface output and the u output of
\* its file and has aggregated v, whose output is not written yet
C10_Witness ==
    \E p \in Workers :
        /\ proc[p].wrote = {"surface", "u"}
        /\ proc[p].aggregated = {"u", "v"}
        /\ proc[p].pc = "pressure_write"

====
